---- MODULE Spec2Model ----
(***************************************************************************)
(* Geneva exporter for OTAP logs: the exporter loop of                     *)
(* GenevaExporter::start (crates/otap/src/geneva_exporter.rs), the         *)
(* conversion of an OTAP Arrow batch into log records, and the retry       *)
(* configuration and the validation of GenevaExporterConfig in             *)
(* crates/geneva-exporter/src/lib.rs.                                      *)
(***************************************************************************)
EXTENDS Integers, Sequences, FiniteSets, TLC

VARIABLES
    pc,             \* position of start(): the await it is suspended at ("start",
                    \* "recv", "pdata", "ack", "convert", "append", "encode", "upload",
                    \* "uploading", "clear", "shutdown_flush", "cancel"), or how it
                    \* returned ("stopped", "error"), or "panic" when it unwound
    in_hand,        \* the PData or Shutdown message start() is handling (None otherwise)
    msg_chan,       \* messages in flight to the exporter (MessageChannel)
    max_buffer_size,\* Config.max_buffer_size
    batch_retry,    \* GenevaExporterConfig.batch_retry (BatchRetryConfig)
    log_buffer,     \* Vec<LogRecordData> accumulated before export
    batches,        \* encoder result being uploaded by the for loop
    batch_idx,      \* position of the for loop (1-based)
    pdata_metrics,  \* ExporterPDataMetrics counters
    terminal,       \* TerminalState returned by start() (None before)
    sent,           \* number of messages the engine has sent so far
    \* History variables: what an observer of the exporter has seen.
    cur,            \* the message being handled, or handled last
    cur_notified,   \* ack/nack notifications emitted while handling cur
    acked,          \* ids of the signals acknowledged so far
    buffer_src,     \* for each buffered record, <<signal id, row>>
    accepted,       \* records appended to the buffer so far, as <<signal id, row>>
    uploaded,       \* records handed to upload_batch so far, as <<signal id, row>>
    upload_log,     \* upload calls made while handling cur: batch index, success
    last_upload,    \* the last upload call in full (None before the first)
    shutdown_during,\* id of the signal being uploaded while a shutdown was in the channel (0: none)
    reported,       \* the counters handed to the metrics reporter while handling cur (None: none)
    encoded,        \* records handed to the encoder so far, in order, as <<signal id, row>>
    \* The functions checked on their own: argument and result (None before the call).
    conv_in,        \* argument of convert_otap_to_log_records
    conv_out,       \* its result
    cfg_in,         \* the GenevaExporterConfig to_uploader_config is called on
    cfg_out         \* its result

vars == <<pc, in_hand, msg_chan, max_buffer_size, batch_retry, log_buffer, batches,
          batch_idx,
          pdata_metrics, terminal, sent, cur, cur_notified, acked, buffer_src,
          accepted, uploaded, upload_log, last_upload, shutdown_during, reported,
          encoded, conv_in, conv_out, cfg_in, cfg_out>>

loop_vars == <<pc, in_hand, msg_chan, max_buffer_size, batch_retry, log_buffer, batches,
          batch_idx,
               pdata_metrics, terminal, sent, cur, cur_notified, acked, buffer_src,
               accepted, uploaded, upload_log, last_upload, shutdown_during, reported,
               encoded>>
pure_vars == <<conv_in, conv_out, cfg_in, cfg_out>>

\* ------------------------------------------------------------------ bounds
MaxMsgs == 2
MaxChan == 2
MaxBufferSize == 2
MaxRows == 1
MaxBatches == 2
MaxFails == 3
MaxConvRows == 2
MaxAttrRows == 2
MaxConfigVersion == 1

\* ----------------------------- defaults of BatchRetryConfig (interval in ms)
DefaultMaxRetries == 3
DefaultInitialIntervalMs == 100
DefaultMaxIntervalMs == 5000
DefaultMultiplier == 2

\* Option<T>: None, or Some(v) holding v.
None == <<>>
Some(v) == <<v>>
IsSome(o) == o # <<>>
Unwrap(o) == o[1]

Max(a, b) == IF a >= b THEN a ELSE b
Min(a, b) == IF a <= b THEN a ELSE b

\* BatchRetryConfig::default()
DefaultBatchRetryConfig ==
    [max_retries |-> DefaultMaxRetries,
     initial_interval |-> DefaultInitialIntervalMs,
     max_interval |-> DefaultMaxIntervalMs,
     multiplier |-> DefaultMultiplier,
     enabled |-> TRUE]

\* The retry configurations the model starts from.
RetryPolicies ==
    {DefaultBatchRetryConfig,
     [DefaultBatchRetryConfig EXCEPT !.enabled = FALSE],
     [DefaultBatchRetryConfig EXCEPT !.max_retries = 0]}

\* ------------------------------------------------------------- conversion
\* An attribute table is [cols, rows]; cols gives each named column's layout
\* ("ok": present with the expected physical layout, "missing", "mismatch"),
\* rows the cells of each row as options (None for a null cell).

\* Value of one LogAttrs row, by its type tag.
LogAttrValue(cols, row) ==
    IF row.type = 1 THEN
        IF cols.str = "ok" /\ IsSome(row.str)
        THEN Some([tag |-> "String", v |-> Unwrap(row.str)]) ELSE None
    ELSE IF row.type = 2 THEN
        IF cols.int = "ok" /\ IsSome(row.int)
        THEN Some([tag |-> "Int", v |-> Unwrap(row.int)]) ELSE None
    ELSE None

\* Value of one ResourceAttrs row: only the string type is handled.
ResourceAttrValue(cols, row) ==
    IF row.type = 1 THEN
        IF cols.str = "ok" /\ IsSome(row.str)
        THEN Some([tag |-> "String", v |-> Unwrap(row.str)]) ELSE None
    ELSE None

\* Key of an attribute row (dictionary lookup), None when it cannot be read.
AttrKey(cols, row) ==
    IF cols.key = "ok" /\ IsSome(row.key) THEN row.key ELSE None

\* Variant: the null check on parent_id is missing, and a null cell reads as 0.
RECURSIVE AttachLogAttrRowsNullAsZero(_, _, _)
AttachLogAttrRowsNullAsZero(log_records, attrs_batch, i) ==
    IF i > Len(attrs_batch.rows) THEN log_records
    ELSE
        LET row == attrs_batch.rows[i]
            key == AttrKey(attrs_batch.cols, row)
            value == LogAttrValue(attrs_batch.cols, row)
            parent_id == IF IsSome(row.parent_id) THEN Unwrap(row.parent_id) ELSE 0
            next ==
                IF parent_id >= Len(log_records) THEN log_records
                ELSE IF ~IsSome(key) THEN log_records
                ELSE IF ~IsSome(value) THEN log_records
                ELSE [log_records EXCEPT ![parent_id + 1].attributes =
                          Append(@, [key |-> Unwrap(key), value |-> Unwrap(value)])]
        IN  AttachLogAttrRowsNullAsZero(next, attrs_batch, i + 1)

\* The per-row loop of extract_and_attach_attributes, from row i on.
RECURSIVE AttachLogAttrRows(_, _, _)
AttachLogAttrRows(log_records, attrs_batch, i) ==
    IF i > Len(attrs_batch.rows) THEN log_records
    ELSE
        LET row == attrs_batch.rows[i]
            key == AttrKey(attrs_batch.cols, row)
            value == LogAttrValue(attrs_batch.cols, row)
            next ==
                IF ~IsSome(row.parent_id) THEN log_records
                ELSE IF Unwrap(row.parent_id) >= Len(log_records) THEN log_records
                ELSE IF ~IsSome(key) THEN log_records
                ELSE IF ~IsSome(value) THEN log_records
                ELSE [log_records EXCEPT ![Unwrap(row.parent_id) + 1].attributes =
                          Append(@, [key |-> Unwrap(key), value |-> Unwrap(value)])]
        IN  AttachLogAttrRows(next, attrs_batch, i + 1)

\* The column checks made before the per-row loop of both attribute extractors.
AttrColumnsError(cols) ==
    IF cols.parent_id = "missing" THEN Some("parent_id column not found")
    ELSE IF cols.parent_id = "mismatch" THEN Some("parent_id is not UInt16Array")
    ELSE IF cols.key = "missing" THEN Some("key column not found")
    ELSE IF cols.type = "missing" THEN Some("type column not found")
    ELSE IF cols.type = "mismatch" THEN Some("type is not UInt8Array")
    ELSE None

\* The same checks in extract_and_attach_resource_attributes: an absent column
\* is reported with the name of the table.
ResourceAttrColumnsError(cols) ==
    IF cols.parent_id = "missing"
    THEN Some("parent_id column not found in ResourceAttrs")
    ELSE IF cols.parent_id = "mismatch" THEN Some("parent_id is not UInt16Array")
    ELSE IF cols.key = "missing" THEN Some("key column not found in ResourceAttrs")
    ELSE IF cols.type = "missing" THEN Some("type column not found in ResourceAttrs")
    ELSE IF cols.type = "mismatch" THEN Some("type is not UInt8Array")
    ELSE None

Ok(records) == [ok |-> TRUE, err |-> "", records |-> records]
Err(e) == [ok |-> FALSE, err |-> e, records |-> <<>>]

extract_and_attach_attributes(log_records, attrs_batch) ==
    IF IsSome(AttrColumnsError(attrs_batch.cols))
    THEN Err(Unwrap(AttrColumnsError(attrs_batch.cols)))
    ELSE Ok(AttachLogAttrRows(log_records, attrs_batch, 1))

\* resource_attrs_map after scanning rows i.. of the ResourceAttrs table.
RECURSIVE BuildResourceAttrsMap(_, _, _)
BuildResourceAttrsMap(map, res_attrs_batch, i) ==
    IF i > Len(res_attrs_batch.rows) THEN map
    ELSE
        LET row == res_attrs_batch.rows[i]
            key == AttrKey(res_attrs_batch.cols, row)
            value == ResourceAttrValue(res_attrs_batch.cols, row)
            entry == <<[key |-> Unwrap(key), value |-> Unwrap(value)]>>
            next ==
                IF ~IsSome(row.parent_id) THEN map
                ELSE IF ~IsSome(key) THEN map
                ELSE IF ~IsSome(value) THEN map
                ELSE IF Unwrap(row.parent_id) \in DOMAIN map
                     THEN [map EXCEPT ![Unwrap(row.parent_id)] = @ \o entry]
                     ELSE [r \in DOMAIN map \cup {Unwrap(row.parent_id)} |->
                              IF r = Unwrap(row.parent_id) THEN entry ELSE map[r]]
        IN  BuildResourceAttrsMap(next, res_attrs_batch, i + 1)

EmptyMap == [r \in {} |-> <<>>]

\* Variant: the resource attributes are put in front of the record's attributes.
extract_and_attach_resource_attributes_first(log_records, res_attrs_batch, resource_ids) ==
    IF IsSome(ResourceAttrColumnsError(res_attrs_batch.cols))
    THEN Err(Unwrap(ResourceAttrColumnsError(res_attrs_batch.cols)))
    ELSE
        LET map == BuildResourceAttrsMap(EmptyMap, res_attrs_batch, 1)
        IN  Ok([i \in 1..Len(log_records) |->
                    IF IsSome(resource_ids[i]) /\ Unwrap(resource_ids[i]) \in DOMAIN map
                    THEN [log_records[i] EXCEPT
                              !.attributes = map[Unwrap(resource_ids[i])] \o @]
                    ELSE log_records[i]])

\* Variant: a resource's attributes go to the first record of that resource only.
extract_and_attach_resource_attributes_once(log_records, res_attrs_batch, resource_ids) ==
    IF IsSome(ResourceAttrColumnsError(res_attrs_batch.cols))
    THEN Err(Unwrap(ResourceAttrColumnsError(res_attrs_batch.cols)))
    ELSE
        LET map == BuildResourceAttrsMap(EmptyMap, res_attrs_batch, 1)
        IN  Ok([i \in 1..Len(log_records) |->
                    IF /\ IsSome(resource_ids[i])
                       /\ Unwrap(resource_ids[i]) \in DOMAIN map
                       /\ \A j \in 1..(i - 1) : resource_ids[j] # resource_ids[i]
                    THEN [log_records[i] EXCEPT
                              !.attributes = @ \o map[Unwrap(resource_ids[i])]]
                    ELSE log_records[i]])

extract_and_attach_resource_attributes(log_records, res_attrs_batch, resource_ids) ==
    IF IsSome(ResourceAttrColumnsError(res_attrs_batch.cols))
    THEN Err(Unwrap(ResourceAttrColumnsError(res_attrs_batch.cols)))
    ELSE
        LET map == BuildResourceAttrsMap(EmptyMap, res_attrs_batch, 1)
        IN  Ok([i \in 1..Len(log_records) |->
                    IF IsSome(resource_ids[i]) /\ Unwrap(resource_ids[i]) \in DOMAIN map
                    THEN [log_records[i] EXCEPT
                              !.attributes = @ \o map[Unwrap(resource_ids[i])]]
                    ELSE log_records[i]])

\* The primary table is [num_rows, <column name> |-> column]. A column has a
\* layout ("ok": present with the expected physical layout, "missing",
\* "mismatch") and cells, one option per row (None: null cell). The cell of a
\* dictionary column is the row's key, and dict holds the dictionary's values.
\* The struct columns body and resource have a validity per row and one
\* sub-column (str, id). Row idx of the model is row idx - 1 of the code.

\* A lookup that ends in a panic instead of a value.
Panic == <<"panic", "panic">>
IsPanic(o) == Len(o) = 2

\* Cell idx of a plain array: None when the column cannot be read or is null.
PlainCell(col, idx) ==
    IF col.layout = "ok" THEN col.cells[idx] ELSE None

\* Cell idx of a dictionary array: key, then values.value(key), which panics
\* when the key is not an index of the values array.
DictCell(col, idx) ==
    IF col.layout # "ok" THEN None
    ELSE IF ~IsSome(col.cells[idx]) THEN None
    ELSE IF Unwrap(col.cells[idx]) >= Len(col.dict) THEN Panic
    ELSE Some(col.dict[Unwrap(col.cells[idx]) + 1])

get_severity_number(arr, idx) == DictCell(arr, idx)

get_severity_text(arr, idx) == DictCell(arr, idx)

get_body(arr, idx) ==
    IF arr.layout # "ok" THEN None
    ELSE IF ~arr.valid[idx] THEN None
    ELSE DictCell(arr.str, idx)

\* `.unwrap_or_default()` of an optional byte string.
UnwrapOrDefault(o) == IF IsSome(o) THEN Unwrap(o) ELSE <<>>

\* The LogRecordData built from row idx, attributes still empty. The
\* timestamps of the model are not negative, so `as u64` keeps their value.
RowRecord(record_batch, idx) ==
    [time_unix_nano |-> PlainCell(record_batch.time_unix_nano, idx),
     observed_time_unix_nano |-> PlainCell(record_batch.observed_time_unix_nano, idx),
     severity_number |-> get_severity_number(record_batch.severity_number, idx),
     severity_text |-> get_severity_text(record_batch.severity_text, idx),
     body |-> get_body(record_batch.body, idx),
     attributes |-> <<>>,
     trace_id |-> UnwrapOrDefault(PlainCell(record_batch.trace_id, idx)),
     span_id |-> UnwrapOrDefault(PlainCell(record_batch.span_id, idx)),
     flags |-> PlainCell(record_batch.flags, idx),
     event_name |-> None]

\* One LogRecordData per row of the primary table.
RowRecords(record_batch) ==
    [idx \in 1..record_batch.num_rows |-> RowRecord(record_batch, idx)]

\* Some row's dictionary lookup panics.
RowsPanic(record_batch) ==
    \E idx \in 1..record_batch.num_rows :
        \/ IsPanic(get_severity_number(record_batch.severity_number, idx))
        \/ IsPanic(get_severity_text(record_batch.severity_text, idx))
        \/ IsPanic(get_body(record_batch.body, idx))

\* The resource id of each row (None when the column or the cell is absent).
ResourceIds(record_batch) ==
    [idx \in 1..record_batch.num_rows |->
        IF record_batch.resource.layout # "ok" THEN None
        ELSE IF ~record_batch.resource.valid[idx] THEN None
        ELSE PlainCell(record_batch.resource.id, idx)]

\* The conversion unwinds with a panic: no result is returned.
Panicked == [ok |-> FALSE, err |-> "panic", records |-> <<>>]

\* otap_batch holds each payload type as an option: logs, log_attrs, resource_attrs.
convert_otap_to_log_records(otap_batch) ==
    IF ~IsSome(otap_batch.logs)
    THEN Err("No logs record batch in OTAP data")
    ELSE IF RowsPanic(Unwrap(otap_batch.logs)) THEN Panicked
    ELSE
        LET record_batch == Unwrap(otap_batch.logs)
            rows == RowRecords(record_batch)
            logged == IF ~IsSome(otap_batch.log_attrs)
                      THEN Ok(rows)
                      ELSE extract_and_attach_attributes(rows, Unwrap(otap_batch.log_attrs))
        IN  IF ~logged.ok THEN logged
            ELSE IF ~IsSome(otap_batch.resource_attrs) THEN logged
            ELSE extract_and_attach_resource_attributes(
                     logged.records, Unwrap(otap_batch.resource_attrs),
                     ResourceIds(record_batch))

\* ------------------------------------------------------------ the messages
SignalTypes == {"Logs", "Metrics", "Traces"}

\* A well-formed column holding the given values, one per row.
PlainCol(values) == [layout |-> "ok", cells |-> [i \in DOMAIN values |-> Some(values[i])]]
DictCol(values) ==
    [layout |-> "ok", cells |-> [i \in DOMAIN values |-> Some(i - 1)], dict |-> values]

\* The values a well-formed primary table holds in row i.
TimeOf(i) == 1000 + i
ObservedTimeOf(i) == 2000 + i
SeverityNumberOf(i) == 8 + i
SeverityTextOf(i) == <<"severity", i>>
BodyOf(i) == <<"body", i>>
TraceIdOf(i) == <<i, i>>
SpanIdOf(i) == <<i>>
FlagsOf(i) == i

\* The resource ids of n rows: row i has id i - 1, or all rows have id 0.
DistinctResource(n) == [i \in 1..n |-> i - 1]
SharedResource(n) == [i \in 1..n |-> 0]

\* A well-formed primary logs table of n rows with the given resource ids.
WellFormedLogs(n, resource_ids) ==
    [num_rows |-> n,
     time_unix_nano |-> PlainCol([i \in 1..n |-> TimeOf(i)]),
     observed_time_unix_nano |-> PlainCol([i \in 1..n |-> ObservedTimeOf(i)]),
     severity_number |-> DictCol([i \in 1..n |-> SeverityNumberOf(i)]),
     severity_text |-> DictCol([i \in 1..n |-> SeverityTextOf(i)]),
     body |-> [layout |-> "ok", valid |-> [i \in 1..n |-> TRUE],
               str |-> DictCol([i \in 1..n |-> BodyOf(i)])],
     trace_id |-> PlainCol([i \in 1..n |-> TraceIdOf(i)]),
     span_id |-> PlainCol([i \in 1..n |-> SpanIdOf(i)]),
     flags |-> PlainCol([i \in 1..n |-> FlagsOf(i)]),
     resource |-> [layout |-> "ok", valid |-> [i \in 1..n |-> TRUE],
                   id |-> PlainCol(resource_ids)]]

\* A primary logs table of n rows; row i carries resource id i - 1.
LogsTable(n) == WellFormedLogs(n, DistinctResource(n))

OkCols == [parent_id |-> "ok", key |-> "ok", type |-> "ok", str |-> "ok", int |-> "ok"]

\* A LogAttrs table with one string attribute for row 0.
OneAttrTable ==
    [cols |-> OkCols,
     rows |-> <<[parent_id |-> Some(0), key |-> Some("k"), type |-> 1,
                 str |-> Some("v"), int |-> None]>>]

\* The OTAP Arrow batches the engine delivers in this model.
BatchRows(n) ==
    [logs |-> Some(LogsTable(n)), log_attrs |-> Some(OneAttrTable), resource_attrs |-> None]
BatchNoLogs ==
    [logs |-> None, log_attrs |-> Some(OneAttrTable), resource_attrs |-> None]
BatchBadAttrs ==
    [logs |-> Some(LogsTable(1)),
     log_attrs |-> Some([OneAttrTable EXCEPT !.cols.parent_id = "missing"]),
     resource_attrs |-> None]

\* A batch whose severity_text key in row 0 is not an index of the dictionary's
\* values array.
BatchBadKey ==
    [logs |-> Some([LogsTable(1) EXCEPT
                       !.severity_text.cells[1] = Some(Len(LogsTable(1).severity_text.dict))]),
     log_attrs |-> Some(OneAttrTable),
     resource_attrs |-> None]

OtapBatches ==
    {BatchNoLogs, BatchBadAttrs, BatchBadKey} \cup {BatchRows(n) : n \in 1..MaxRows}

Payloads ==
    {[kind |-> "OtapArrowRecords", batch |-> b] : b \in OtapBatches}
    \cup {[kind |-> "OtlpBytes", batch |-> BatchNoLogs]}

PDataMsg(id, signal_type, payload) ==
    [type |-> "PData", id |-> id, signal_type |-> signal_type,
     payload |-> payload, deadline |-> "none"]
ControlMsg(type, deadline) ==
    [type |-> type, id |-> 0, signal_type |-> "", deadline |-> deadline,
     payload |-> [kind |-> "", batch |-> BatchNoLogs]]

\* The deadlines a shutdown request may carry.
Deadlines == {"d1", "d2"}

\* The messages the engine may send as its id-th message.
Messages(id) ==
    {PDataMsg(id, "Logs", p) : p \in Payloads}
    \cup {PDataMsg(id, st, [kind |-> "OtapArrowRecords", batch |-> BatchRows(1)]) :
              st \in SignalTypes \ {"Logs"}}
    \cup {ControlMsg("Shutdown", d) : d \in Deadlines}
    \cup {ControlMsg("CollectTelemetry", "none"), ControlMsg("TimerTick", "none")}

\* The result of convert_otap_to_log_records on each batch the engine delivers
\* (the function is pure: its results are tabulated once).
Conversions == [b \in OtapBatches |-> convert_otap_to_log_records(b)]

\* ------------------------------------------------------------ collaborators
RECURSIVE SumSeq(_)
SumSeq(s) == IF s = <<>> THEN 0 ELSE s[1] + SumSeq(Tail(s))

\* The ways the encoder may cut n records into at most MaxBatches batches
\* (sizes in encoder order; a size of 0 is a batch with an empty payload).
Splits(n) ==
    {s \in UNION {[1..k -> 0..n] : k \in 0..MaxBatches} : SumSeq(s) = n}

\* The batches of a split: batch j holds the buffer positions recs, and its
\* payload length is their number.
BatchesOf(split) ==
    [j \in 1..Len(split) |->
        LET before == SumSeq(SubSeq(split, 1, j - 1))
        IN  [data_len |-> split[j], recs |-> (before + 1)..(before + split[j])]]

\* GenevaClient::encode_and_compress_otap_logs: an error, or the batches.
EncodeOutcomes(buffer) ==
    {[ok |-> FALSE, batches |-> <<>>]}
    \cup {[ok |-> TRUE, batches |-> BatchesOf(s)] : s \in Splits(Len(buffer))}

\* The backoff schedule of a retrying uploader: n waits starting at delay,
\* each multiplied and capped at max_interval (0: no cap).
RECURSIVE Backoffs(_, _, _)
Backoffs(policy, delay, n) ==
    IF n = 0 THEN <<>>
    ELSE <<delay>> \o
         Backoffs(policy,
                  IF policy.max_interval = 0 THEN delay * policy.multiplier
                  ELSE Min(delay * policy.multiplier, policy.max_interval),
                  n - 1)

\* A retrying uploader that stops at the first success or after max_attempts.
RetryUpTo(policy, fails, max_attempts) ==
    LET n == Min(fails + 1, max_attempts)
        ok == fails < max_attempts
    IN  [attempts |-> n, ok |-> ok, err |-> IF ok THEN 0 ELSE n,
         waits |-> Backoffs(policy, policy.initial_interval, n - 1)]

\* Variant: max_retries counts the retries after the first attempt.
UploadAttemptsOneExtra(policy, fails) ==
    RetryUpTo(policy, fails, IF policy.enabled THEN policy.max_retries + 1 ELSE 1)

\* Variant: the retry loop runs whether or not the policy is enabled.
UploadAttemptsIgnoringEnabled(policy, fails) ==
    RetryUpTo(policy, fails, Max(1, policy.max_retries))

\* The upload of one batch as start() performs it: one call of
\* GenevaClient::upload_batch, whose result is the batch's outcome. fails is
\* the number of leading attempts the collaborator would fail; err names the
\* attempt whose error is reported (0: none).
UploadAttempts(policy, fails) ==
    [attempts |-> 1, ok |-> fails = 0, err |-> IF fails = 0 THEN 0 ELSE 1, waits |-> <<>>]

\* ------------------------------------------------------------ the exporter
\* start() has been called and is about to start its telemetry timer.
Init ==
    /\ pc = "start"
    /\ in_hand = None
    /\ msg_chan = <<>>
    /\ max_buffer_size \in 1..MaxBufferSize
    /\ batch_retry \in RetryPolicies
    /\ log_buffer = <<>>
    /\ batches = <<>>
    /\ batch_idx = 0
    /\ pdata_metrics = [logs_consumed |-> 0, logs_exported |-> 0, logs_failed |-> 0]
    /\ terminal = None
    /\ sent = 0
    /\ cur = [type |-> "none", id |-> 0, signal_type |-> "", deadline |-> "none",
              decode |-> "none", encode |-> "none", n_batches |-> 0]
    /\ cur_notified = <<>>
    /\ acked = {}
    /\ buffer_src = <<>>
    /\ accepted = {}
    /\ uploaded = {}
    /\ upload_log = <<>>
    /\ last_upload = None
    /\ shutdown_during = 0
    /\ reported = None
    /\ encoded = <<>>
    /\ conv_in = None /\ conv_out = None
    /\ cfg_in = None /\ cfg_out = None

HasShutdown(chan) == \E i \in 1..Len(chan) : chan[i].type = "Shutdown"

\* What the observer notes of message m when start() takes it.
Taken(m, decode, encode, n_batches) ==
    [type |-> m.type, id |-> m.id, signal_type |-> m.signal_type,
     deadline |-> m.deadline, decode |-> decode, encode |-> encode,
     n_batches |-> n_batches]

\* The positions at which start() is suspended in the upload loop.
Uploading == pc \in {"upload", "uploading"}

\* The engine puts a message on the exporter's channel; it can do so whenever
\* start() is suspended at an await.
Send ==
    /\ pc \notin {"stopped", "error", "panic"}
    /\ sent < MaxMsgs
    /\ Len(msg_chan) < MaxChan
    /\ \E m \in Messages(sent + 1) :
          /\ msg_chan' = Append(msg_chan, m)
          /\ shutdown_during' = IF Uploading /\ m.type = "Shutdown"
                                 THEN cur.id ELSE shutdown_during
    /\ sent' = sent + 1
    /\ UNCHANGED pure_vars
    /\ UNCHANGED <<pc, in_hand, max_buffer_size, batch_retry, log_buffer, batches, batch_idx,
                   pdata_metrics, terminal, cur, cur_notified, acked, buffer_src,
                   accepted, uploaded, upload_log, last_upload, reported, encoded>>

\* effect_handler.start_periodic_telemetry(..).await?: the timer starts and
\* start() enters its loop, or the error propagates out of start().
StartPeriodicTelemetry ==
    /\ pc = "start"
    /\ \E ok \in BOOLEAN : pc' = IF ok THEN "recv" ELSE "error"
    /\ UNCHANGED pure_vars
    /\ UNCHANGED <<in_hand, msg_chan, max_buffer_size, batch_retry, log_buffer, batches,
                   batch_idx, pdata_metrics, terminal, sent, cur, cur_notified, acked,
                   buffer_src, accepted, uploaded, upload_log, last_upload,
                   shutdown_during, reported, encoded>>

\* msg_chan.recv().await? fails: the error propagates out of start().
RecvError ==
    /\ pc = "recv"
    /\ msg_chan = <<>>
    /\ pc' = "error"
    /\ UNCHANGED pure_vars
    /\ UNCHANGED <<in_hand, msg_chan, max_buffer_size, batch_retry, log_buffer, batches,
                   batch_idx, pdata_metrics, terminal, sent, cur, cur_notified, acked,
                   buffer_src, accepted, uploaded, upload_log, last_upload,
                   shutdown_during, reported, encoded>>

\* Variant: the shutdown request is also served between two batch uploads.
RecvShutdownPreempting ==
    /\ pc \in {"recv", "upload"}
    /\ msg_chan # <<>>
    /\ Head(msg_chan).type = "Shutdown"
    /\ msg_chan' = Tail(msg_chan)
    /\ in_hand' = Some(Head(msg_chan))
    /\ pc' = IF log_buffer # <<>> THEN "shutdown_flush" ELSE "cancel"
    /\ cur' = Taken(Head(msg_chan), "none", "none", 0)
    /\ cur_notified' = <<>>
    /\ upload_log' = <<>>
    /\ last_upload' = None
    /\ reported' = None
    /\ UNCHANGED pure_vars
    /\ UNCHANGED <<max_buffer_size, batch_retry, log_buffer, batches, batch_idx,
                   pdata_metrics, terminal, sent, acked, buffer_src, accepted, uploaded,
                   shutdown_during, encoded>>

\* Message::Control(NodeControlMsg::Shutdown) is taken: a non-empty buffer is
\* to be flushed first.
RecvShutdown ==
    /\ pc = "recv"
    /\ msg_chan # <<>>
    /\ Head(msg_chan).type = "Shutdown"
    /\ msg_chan' = Tail(msg_chan)
    /\ in_hand' = Some(Head(msg_chan))
    /\ pc' = IF log_buffer # <<>> THEN "shutdown_flush" ELSE "cancel"
    /\ cur' = Taken(Head(msg_chan), "none", "none", 0)
    /\ cur_notified' = <<>>
    /\ upload_log' = <<>>
    /\ last_upload' = None
    /\ reported' = None
    /\ UNCHANGED pure_vars
    /\ UNCHANGED <<max_buffer_size, batch_retry, log_buffer, batches, batch_idx,
                   pdata_metrics, terminal, sent, acked, buffer_src, accepted, uploaded,
                   shutdown_during, encoded>>

\* The flush before shutdown: the buffer is handed to the encoder and the
\* encoder's result is dropped (an error is only logged); nothing is uploaded
\* and the buffer is not cleared.
ShutdownFlush ==
    /\ pc = "shutdown_flush"
    /\ \E outcome \in EncodeOutcomes(log_buffer) : TRUE
    /\ encoded' = encoded \o buffer_src
    /\ pc' = "cancel"
    /\ UNCHANGED pure_vars
    /\ UNCHANGED <<in_hand, msg_chan, max_buffer_size, batch_retry, log_buffer, batches,
                   batch_idx, pdata_metrics, terminal, sent, cur, cur_notified, acked,
                   buffer_src, accepted, uploaded, upload_log, last_upload,
                   shutdown_during, reported>>

\* timer_cancel_handle.cancel().await, then start() returns its terminal state.
CancelTimer ==
    /\ pc = "cancel"
    /\ terminal' = Some([deadline |-> Unwrap(in_hand).deadline, metrics |-> pdata_metrics])
    /\ pc' = "stopped"
    /\ UNCHANGED pure_vars
    /\ UNCHANGED <<in_hand, msg_chan, max_buffer_size, batch_retry, log_buffer, batches,
                   batch_idx, pdata_metrics, sent, cur, cur_notified, acked,
                   buffer_src, accepted, uploaded, upload_log, last_upload,
                   shutdown_during, reported, encoded>>

\* metrics_reporter.report(&mut self.pdata_metrics): the counters after the
\* call. The reporter's body is outside these crates; through the mutable
\* borrow it can leave the counters as they are or reset them.
report(metrics) ==
    {metrics, [logs_consumed |-> 0, logs_exported |-> 0, logs_failed |-> 0]}

\* Message::Control(NodeControlMsg::CollectTelemetry): the counters are handed
\* to the reporter, whose result is dropped; there is no await between recv()
\* and the next recv().
RecvCollectTelemetry ==
    /\ pc = "recv"
    /\ msg_chan # <<>>
    /\ Head(msg_chan).type = "CollectTelemetry"
    /\ msg_chan' = Tail(msg_chan)
    /\ cur' = Taken(Head(msg_chan), "none", "none", 0)
    /\ cur_notified' = <<>>
    /\ upload_log' = <<>>
    /\ last_upload' = None
    /\ reported' = Some(pdata_metrics)
    /\ pdata_metrics' \in report(pdata_metrics)
    /\ UNCHANGED pure_vars
    /\ UNCHANGED <<pc, in_hand, max_buffer_size, batch_retry, log_buffer, batches, batch_idx,
                   terminal, sent, acked, buffer_src, accepted, uploaded,
                   shutdown_during, encoded>>

\* Any other control message is ignored.
RecvOther ==
    /\ pc = "recv"
    /\ msg_chan # <<>>
    /\ Head(msg_chan).type \notin {"Shutdown", "CollectTelemetry", "PData"}
    /\ msg_chan' = Tail(msg_chan)
    /\ cur' = Taken(Head(msg_chan), "none", "none", 0)
    /\ cur_notified' = <<>>
    /\ upload_log' = <<>>
    /\ last_upload' = None
    /\ reported' = None
    /\ UNCHANGED pure_vars
    /\ UNCHANGED <<pc, in_hand, max_buffer_size, batch_retry, log_buffer, batches, batch_idx,
                   pdata_metrics, terminal, sent, acked, buffer_src, accepted, uploaded,
                   shutdown_during, encoded>>

\* Message::PData is taken from the channel; start() logs the signal type.
RecvPData ==
    /\ pc = "recv"
    /\ msg_chan # <<>>
    /\ Head(msg_chan).type = "PData"
    /\ msg_chan' = Tail(msg_chan)
    /\ in_hand' = Some(Head(msg_chan))
    /\ pc' = "pdata"
    /\ cur' = Taken(Head(msg_chan), "none", "none", 0)
    /\ cur_notified' = <<>>
    /\ upload_log' = <<>>
    /\ last_upload' = None
    /\ reported' = None
    /\ UNCHANGED pure_vars
    /\ UNCHANGED <<max_buffer_size, batch_retry, log_buffer, batches, batch_idx,
                   pdata_metrics, terminal, sent, acked, buffer_src, accepted, uploaded,
                   shutdown_during, encoded>>

\* `if signal_type != SignalType::Logs`: logged, then `continue`.
SkipNotLogs ==
    /\ pc = "pdata"
    /\ Unwrap(in_hand).signal_type # "Logs"
    /\ pc' = "recv"
    /\ in_hand' = None
    /\ UNCHANGED pure_vars
    /\ UNCHANGED <<msg_chan, max_buffer_size, batch_retry, log_buffer, batches,
                   batch_idx, pdata_metrics, terminal, sent, cur, cur_notified, acked,
                   buffer_src, accepted, uploaded, upload_log, last_upload,
                   shutdown_during, reported, encoded>>

IncConsumed(m) == [m EXCEPT !.logs_consumed = @ + 1]
IncExported(m) == [m EXCEPT !.logs_exported = @ + 1]
IncFailed(m) == [m EXCEPT !.logs_failed = @ + 1]

\* Variant: the payload is converted without waiting for the acknowledgement.
CountConsumedSkippingAck ==
    /\ pc = "pdata"
    /\ Unwrap(in_hand).signal_type = "Logs"
    /\ pdata_metrics' = IncConsumed(pdata_metrics)
    /\ pc' = IF Unwrap(in_hand).payload.kind = "OtapArrowRecords" THEN "convert" ELSE "ack"
    /\ UNCHANGED pure_vars
    /\ UNCHANGED <<in_hand, msg_chan, max_buffer_size, batch_retry, log_buffer, batches,
                   batch_idx, terminal, sent, cur, cur_notified, acked,
                   buffer_src, accepted, uploaded, upload_log, last_upload,
                   shutdown_during, reported, encoded>>

\* A Logs signal: inc_consumed, take_payload, and the call of notify_ack.
CountConsumed ==
    /\ pc = "pdata"
    /\ Unwrap(in_hand).signal_type = "Logs"
    /\ pdata_metrics' = IncConsumed(pdata_metrics)
    /\ pc' = "ack"
    /\ UNCHANGED pure_vars
    /\ UNCHANGED <<in_hand, msg_chan, max_buffer_size, batch_retry, log_buffer, batches,
                   batch_idx, terminal, sent, cur, cur_notified, acked,
                   buffer_src, accepted, uploaded, upload_log, last_upload,
                   shutdown_during, reported, encoded>>

\* notify_ack(AckMsg::new(pdata)).await?: the acknowledgement is delivered, or
\* the error propagates out of start(). A payload that is not OTAP Arrow
\* records is only logged.
NotifyAck ==
    /\ pc = "ack"
    /\ \E ack_ok \in BOOLEAN :
          IF ~ack_ok
          THEN /\ pc' = "error"
               /\ UNCHANGED <<in_hand, cur_notified, acked>>
          ELSE /\ cur_notified' = <<[kind |-> "ack", id |-> Unwrap(in_hand).id]>>
               /\ acked' = acked \cup {Unwrap(in_hand).id}
               /\ IF Unwrap(in_hand).payload.kind = "OtapArrowRecords"
                  THEN pc' = "convert" /\ in_hand' = in_hand
                  ELSE pc' = "recv" /\ in_hand' = None
    /\ UNCHANGED pure_vars
    /\ UNCHANGED <<msg_chan, max_buffer_size, batch_retry, log_buffer, batches,
                   batch_idx, pdata_metrics, terminal, sent, cur,
                   buffer_src, accepted, uploaded, upload_log, last_upload,
                   shutdown_during, reported, encoded>>

\* Self::convert_otap_to_log_records(&otap_batch): the records, or a failure
\* that is counted and logged; a panic of the conversion is not caught and
\* unwinds out of start().
ConvertPayload ==
    /\ pc = "convert"
    /\ LET conv == Conversions[Unwrap(in_hand).payload.batch] IN
       IF conv.ok
       THEN /\ pc' = "append"
            /\ cur' = [cur EXCEPT !.decode = "ok"]
            /\ UNCHANGED <<in_hand, pdata_metrics>>
       ELSE IF conv = Panicked
       THEN /\ pc' = "panic"
            /\ cur' = [cur EXCEPT !.decode = "panic"]
            /\ UNCHANGED <<in_hand, pdata_metrics>>
       ELSE /\ pc' = "recv"
            /\ in_hand' = None
            /\ cur' = [cur EXCEPT !.decode = "err"]
            /\ pdata_metrics' = IncFailed(pdata_metrics)
    /\ UNCHANGED pure_vars
    /\ UNCHANGED <<msg_chan, max_buffer_size, batch_retry, log_buffer, batches,
                   batch_idx, terminal, sent, cur_notified, acked,
                   buffer_src, accepted, uploaded, upload_log, last_upload,
                   shutdown_during, reported, encoded>>

\* The records just converted (the local `records`), and where they come from.
Records == Conversions[Unwrap(in_hand).payload.batch].records
RecordsSrc == [i \in 1..Len(Records) |-> <<Unwrap(in_hand).id, i>>]

\* Variant: the buffer is flushed only when it exceeds max_buffer_size.
AppendRecordsStrictThreshold ==
    /\ pc = "append"
    /\ log_buffer' = log_buffer \o Records
    /\ buffer_src' = buffer_src \o RecordsSrc
    /\ accepted' = accepted \cup {RecordsSrc[i] : i \in 1..Len(Records)}
    /\ IF Len(log_buffer') > max_buffer_size
       THEN pc' = "encode" /\ in_hand' = in_hand
       ELSE pc' = "recv" /\ in_hand' = None
    /\ UNCHANGED pure_vars
    /\ UNCHANGED <<msg_chan, max_buffer_size, batch_retry, batches,
                   batch_idx, pdata_metrics, terminal, sent, cur, cur_notified, acked,
                   uploaded, upload_log, last_upload,
                   shutdown_during, reported, encoded>>

\* Variant: the buffer is flushed after every append.
AppendRecordsFlushingAlways ==
    /\ pc = "append"
    /\ log_buffer' = log_buffer \o Records
    /\ buffer_src' = buffer_src \o RecordsSrc
    /\ accepted' = accepted \cup {RecordsSrc[i] : i \in 1..Len(Records)}
    /\ pc' = "encode" /\ in_hand' = in_hand
    /\ UNCHANGED pure_vars
    /\ UNCHANGED <<msg_chan, max_buffer_size, batch_retry, batches,
                   batch_idx, pdata_metrics, terminal, sent, cur, cur_notified, acked,
                   uploaded, upload_log, last_upload,
                   shutdown_during, reported, encoded>>

\* log_buffer.append(&mut records), then `if log_buffer.len() >=
\* self.config.max_buffer_size`: the flush follows, or the next recv().
AppendRecords ==
    /\ pc = "append"
    /\ log_buffer' = log_buffer \o Records
    /\ buffer_src' = buffer_src \o RecordsSrc
    /\ accepted' = accepted \cup {RecordsSrc[i] : i \in 1..Len(Records)}
    /\ IF Len(log_buffer') >= max_buffer_size
       THEN pc' = "encode" /\ in_hand' = in_hand
       ELSE pc' = "recv" /\ in_hand' = None
    /\ UNCHANGED pure_vars
    /\ UNCHANGED <<msg_chan, max_buffer_size, batch_retry, batches,
                   batch_idx, pdata_metrics, terminal, sent, cur, cur_notified, acked,
                   uploaded, upload_log, last_upload,
                   shutdown_during, reported, encoded>>

\* Variant: after an encoding failure the buffer is kept for the next flush.
EncodeKeepingOnFailure ==
    /\ pc = "encode"
    /\ encoded' = encoded \o buffer_src
    /\ \E outcome \in EncodeOutcomes(log_buffer) :
          IF outcome.ok
          THEN /\ batches' = outcome.batches
               /\ batch_idx' = IF outcome.batches = <<>> THEN 0 ELSE 1
               /\ pc' = IF outcome.batches = <<>> THEN "clear" ELSE "upload"
               /\ cur' = [cur EXCEPT !.encode = "ok", !.n_batches = Len(outcome.batches)]
               /\ shutdown_during' = IF outcome.batches # <<>> /\ HasShutdown(msg_chan)
                                      THEN cur.id ELSE shutdown_during
               /\ UNCHANGED <<in_hand, pdata_metrics>>
          ELSE /\ pdata_metrics' = IncFailed(pdata_metrics)
               /\ cur' = [cur EXCEPT !.encode = "err"]
               /\ pc' = "recv"
               /\ in_hand' = None
               /\ UNCHANGED <<batches, batch_idx, shutdown_during>>
    /\ UNCHANGED pure_vars
    /\ UNCHANGED <<msg_chan, max_buffer_size, batch_retry, log_buffer,
                   terminal, sent, cur_notified, acked,
                   buffer_src, accepted, uploaded, upload_log, last_upload, reported>>

\* geneva_client.encode_and_compress_otap_logs(&log_buffer): the batches to
\* upload, or a failure that is counted and logged.
Encode ==
    /\ pc = "encode"
    /\ encoded' = encoded \o buffer_src
    /\ \E outcome \in EncodeOutcomes(log_buffer) :
          IF outcome.ok
          THEN /\ batches' = outcome.batches
               /\ batch_idx' = IF outcome.batches = <<>> THEN 0 ELSE 1
               /\ pc' = IF outcome.batches = <<>> THEN "clear" ELSE "upload"
               /\ cur' = [cur EXCEPT !.encode = "ok", !.n_batches = Len(outcome.batches)]
               /\ shutdown_during' = IF outcome.batches # <<>> /\ HasShutdown(msg_chan)
                                      THEN cur.id ELSE shutdown_during
               /\ UNCHANGED pdata_metrics
          ELSE /\ pdata_metrics' = IncFailed(pdata_metrics)
               /\ cur' = [cur EXCEPT !.encode = "err"]
               /\ pc' = "clear"
               /\ UNCHANGED <<batches, batch_idx, shutdown_during>>
    /\ UNCHANGED pure_vars
    /\ UNCHANGED <<in_hand, msg_chan, max_buffer_size, batch_retry, log_buffer,
                   terminal, sent, cur_notified, acked,
                   buffer_src, accepted, uploaded, upload_log, last_upload, reported>>

\* One iteration of `for (idx, batch) in batches.iter().enumerate()`, first
\* half: geneva_client.upload_batch(batch) is called.
UploadBatch ==
    /\ pc = "upload"
    /\ uploaded' = uploaded \cup {buffer_src[i] : i \in batches[batch_idx].recs}
    /\ pc' = "uploading"
    /\ UNCHANGED pure_vars
    /\ UNCHANGED <<in_hand, msg_chan, max_buffer_size, batch_retry, log_buffer, batches,
                   batch_idx, pdata_metrics, terminal, sent, cur, cur_notified, acked,
                   buffer_src, accepted, upload_log, last_upload,
                   shutdown_during, reported, encoded>>

\* Second half: the call returns and its result is counted; the loop goes to
\* the next batch, or ends.
UploadOutcome ==
    /\ pc = "uploading"
    /\ \E fails \in 0..MaxFails :
          LET out == UploadAttempts(batch_retry, fails) IN
          /\ upload_log' = Append(upload_log, [idx |-> batch_idx, ok |-> out.ok])
          /\ last_upload' = Some(
                 [idx |-> batch_idx, data_len |-> batches[batch_idx].data_len,
                  fails |-> fails, attempts |-> out.attempts, ok |-> out.ok,
                  err |-> out.err, waits |-> out.waits])
          /\ pdata_metrics' = IF out.ok THEN IncExported(pdata_metrics)
                              ELSE IncFailed(pdata_metrics)
    /\ IF batch_idx = Len(batches)
       THEN pc' = "clear" /\ batch_idx' = batch_idx
       ELSE pc' = "upload" /\ batch_idx' = batch_idx + 1
    /\ UNCHANGED pure_vars
    /\ UNCHANGED <<in_hand, msg_chan, max_buffer_size, batch_retry, log_buffer, batches,
                   terminal, sent, cur, cur_notified, acked,
                   buffer_src, accepted, uploaded, shutdown_during, reported, encoded>>

\* log_buffer.clear() after the flush, whatever the flush did.
Clear ==
    /\ pc = "clear"
    /\ log_buffer' = <<>>
    /\ buffer_src' = <<>>
    /\ batches' = <<>>
    /\ batch_idx' = 0
    /\ in_hand' = None
    /\ pc' = "recv"
    /\ UNCHANGED pure_vars
    /\ UNCHANGED <<msg_chan, max_buffer_size, batch_retry,
                   pdata_metrics, terminal, sent, cur, cur_notified, acked,
                   accepted, uploaded, upload_log, last_upload,
                   shutdown_during, reported, encoded>>

Next ==
    \/ Send
    \/ StartPeriodicTelemetry
    \/ RecvError
    \/ RecvShutdown
    \/ ShutdownFlush
    \/ CancelTimer
    \/ RecvCollectTelemetry
    \/ RecvOther
    \/ RecvPData
    \/ SkipNotLogs
    \/ CountConsumed
    \/ NotifyAck
    \/ ConvertPayload
    \/ AppendRecords
    \/ Encode
    \/ UploadBatch
    \/ UploadOutcome
    \/ Clear

Spec == Init /\ [][Next]_vars

\* ------------------------------------------- the conversion on its own
\* The inputs convert_otap_to_log_records is checked on. An attribute row of
\* these tables is named by its table and row number, and the content of its
\* str and int cells is that name, so that an attribute of the result tells
\* the row it was read from; every row has the same key "k".
AttrCell(table, i) == [table |-> table, row |-> i]

\* Row i of an attribute table: "str" and "int" rows carry a value of their
\* type, "other" rows an unsupported type tag, "nokey" rows a null key,
\* "novalue" rows a null value cell.
AttrRow(table, i, parent, kind) ==
    [parent_id |-> parent,
     key |-> IF kind = "nokey" THEN None ELSE Some("k"),
     type |-> IF kind = "int" THEN 2 ELSE IF kind = "other" THEN 3 ELSE 1,
     str |-> IF kind \in {"str", "other", "nokey"} THEN Some(AttrCell(table, i)) ELSE None,
     int |-> IF kind \in {"int", "other"} THEN Some(AttrCell(table, i)) ELSE None]

\* The attribute tables of at most MaxAttrRows rows whose rows have a parent
\* id in parents and a kind in kinds.
AttrTables(table, parents, kinds) ==
    {[cols |-> OkCols,
      rows |-> [i \in DOMAIN f |-> AttrRow(table, i, f[i][1], f[i][2])]] :
        f \in UNION {[1..k -> parents \X kinds] : k \in 0..MaxAttrRows}}

\* Parent ids: null, the rows 0..MaxConvRows - 1, and one past the last row.
ParentIds == {None} \cup {Some(p) : p \in 0..MaxConvRows}

\* A table with a string and an int attribute for parent 0.
TwoAttrTable(table) ==
    [cols |-> OkCols,
     rows |-> <<AttrRow(table, 1, Some(0), "str"), AttrRow(table, 2, Some(0), "int")>>]

\* TwoAttrTable with a null key, a null value cell, or one column's layout changed.
DefectiveAttrTables(table) ==
    {[cols |-> OkCols,
      rows |-> <<AttrRow(table, 1, Some(0), k), AttrRow(table, 2, Some(0), "int")>>] :
        k \in {"nokey", "novalue"}}
    \cup {[TwoAttrTable(table) EXCEPT !.cols[c] = l] :
            c \in {"parent_id", "key", "type", "str", "int"}, l \in {"missing", "mismatch"}}

PrimaryTables ==
    {WellFormedLogs(n, DistinctResource(n)) : n \in 0..MaxConvRows}
    \cup {WellFormedLogs(n, SharedResource(n)) : n \in 0..MaxConvRows}

\* The columns of the primary table and the defects a column can have: its
\* layout ("missing", "mismatch"), a null cell or null struct ("null"), a
\* dictionary key outside the dictionary ("out_of_range"), and for the struct
\* columns the same on their sub-column ("sub_...").
PlainColumns == {"time_unix_nano", "observed_time_unix_nano", "trace_id", "span_id", "flags"}
DictColumns == {"severity_number", "severity_text"}
StructColumns == {"body", "resource"}
Columns == PlainColumns \cup DictColumns \cup StructColumns

NoDefect == [col |-> "none", kind |-> "none", row |-> 0]

Defects(n) ==
    {[col |-> c, kind |-> k, row |-> 0] : c \in Columns, k \in {"missing", "mismatch"}}
    \cup {[col |-> c, kind |-> "null", row |-> r] : c \in Columns, r \in 1..n}
    \cup {[col |-> c, kind |-> "out_of_range", row |-> r] :
             c \in DictColumns \cup {"body"}, r \in 1..n}
    \cup {[col |-> c, kind |-> k, row |-> 0] :
             c \in StructColumns, k \in {"sub_missing", "sub_mismatch"}}
    \cup {[col |-> c, kind |-> "sub_null", row |-> r] : c \in StructColumns, r \in 1..n}

\* The primary table t with defect d.
WithDefect(t, d) ==
    IF d.kind \in {"missing", "mismatch"} THEN [t EXCEPT ![d.col].layout = d.kind]
    ELSE IF d.kind = "null" THEN
        IF d.col \in StructColumns THEN [t EXCEPT ![d.col].valid[d.row] = FALSE]
        ELSE [t EXCEPT ![d.col].cells[d.row] = None]
    ELSE IF d.kind = "out_of_range" THEN
        IF d.col = "body"
        THEN [t EXCEPT !.body.str.cells[d.row] = Some(Len(t.body.str.dict))]
        ELSE [t EXCEPT ![d.col].cells[d.row] = Some(Len(t[d.col].dict))]
    ELSE IF d.col = "body" THEN
        IF d.kind = "sub_null" THEN [t EXCEPT !.body.str.cells[d.row] = None]
        ELSE [t EXCEPT !.body.str.layout =
                  IF d.kind = "sub_missing" THEN "missing" ELSE "mismatch"]
    ELSE
        IF d.kind = "sub_null" THEN [t EXCEPT !.resource.id.cells[d.row] = None]
        ELSE [t EXCEPT !.resource.id.layout =
                  IF d.kind = "sub_missing" THEN "missing" ELSE "mismatch"]

\* The resource-attribute table of the defect inputs: one string attribute of resource 0.
OneResourceAttrTable ==
    [cols |-> OkCols, rows |-> <<AttrRow("res", 1, Some(0), "str")>>]

ConvInput(logs, log_attrs, resource_attrs, defect) ==
    [batch |-> [logs |-> logs, log_attrs |-> log_attrs, resource_attrs |-> resource_attrs],
     defect |-> defect]

\* start() is not running: the state of the loop while a function is checked alone.
Idle ==
    /\ pc = "idle"
    /\ in_hand = None
    /\ msg_chan = <<>>
    /\ max_buffer_size = 1
    /\ batch_retry = DefaultBatchRetryConfig
    /\ log_buffer = <<>>
    /\ batches = <<>>
    /\ batch_idx = 0
    /\ pdata_metrics = [logs_consumed |-> 0, logs_exported |-> 0, logs_failed |-> 0]
    /\ terminal = None
    /\ sent = 0
    /\ cur = [type |-> "none", id |-> 0, signal_type |-> "", deadline |-> "none",
              decode |-> "none", encode |-> "none", n_batches |-> 0]
    /\ cur_notified = <<>>
    /\ acked = {}
    /\ buffer_src = <<>>
    /\ accepted = {}
    /\ uploaded = {}
    /\ upload_log = <<>>
    /\ last_upload = None
    /\ shutdown_during = 0
    /\ reported = None
    /\ encoded = <<>>

\* The conversion is about to be called on one of its inputs.
InitConvert ==
    /\ Idle
    /\ conv_out = None
    /\ cfg_in = None /\ cfg_out = None
    /\ \/ \* one attribute table with any parent ids, the other absent
          \E t \in PrimaryTables :
             \/ \E a \in AttrTables("log", ParentIds, {"str", "int", "other"}) :
                   conv_in = ConvInput(Some(t), Some(a), None, NoDefect)
             \/ \E a \in AttrTables("res", ParentIds, {"str", "int", "other"}) :
                   conv_in = ConvInput(Some(t), None, Some(a), NoDefect)
       \/ \* both attribute tables, all parent ids in range
          \E t \in PrimaryTables :
             \E a \in AttrTables("log", {Some(0), Some(1)}, {"str", "int"}),
                b \in AttrTables("res", {Some(0), Some(1)}, {"str", "int"}) :
                   conv_in = ConvInput(Some(t), Some(a), Some(b), NoDefect)
       \/ \* an attribute table with a defect
          \E t \in PrimaryTables :
             \/ \E a \in DefectiveAttrTables("log") :
                   conv_in = ConvInput(Some(t), Some(a), None, NoDefect)
             \/ \E a \in DefectiveAttrTables("res") :
                   conv_in = ConvInput(Some(t), None, Some(a), NoDefect)
       \/ \* a primary table with one defect
          \E n \in 1..MaxConvRows : \E d \in Defects(n) :
             conv_in = ConvInput(Some(WithDefect(WellFormedLogs(n, DistinctResource(n)), d)),
                                 None, Some(OneResourceAttrTable), d)
       \/ \* no primary table
          \E a \in {None, Some(TwoAttrTable("log"))} :
             conv_in = ConvInput(None, a, None, NoDefect)

\* convert_otap_to_log_records is called on conv_in.
Convert ==
    /\ conv_out = None
    /\ conv_out' = Some(convert_otap_to_log_records(conv_in.batch))
    /\ UNCHANGED <<conv_in, cfg_in, cfg_out>>
    /\ UNCHANGED loop_vars

NextConvert == Convert

SpecConvert == InitConvert /\ [][NextConvert]_vars

\* ------------------------------------------- GenevaExporterConfig validation
\* The required string fields, in the order to_uploader_config checks them.
RequiredFields ==
    <<"endpoint", "environment", "account", "namespace", "region", "tenant",
      "role_name", "role_instance">>

\* The first required field of cfg that is empty (None: all are present).
FirstMissing(cfg) ==
    IF \A k \in 1..Len(RequiredFields) : cfg[RequiredFields[k]] # "" THEN None
    ELSE Some(RequiredFields[CHOOSE k \in 1..Len(RequiredFields) :
                  /\ cfg[RequiredFields[k]] = ""
                  /\ \A j \in 1..(k - 1) : cfg[RequiredFields[j]] # ""])

MissingField(name) ==
    [ok |-> FALSE, err |-> [kind |-> "MissingField", what |-> name], config |-> None]
InvalidConfig(msg) ==
    [ok |-> FALSE, err |-> [kind |-> "InvalidConfig", what |-> msg], config |-> None]

\* ManagedIdentityExt::with_resource: the auth method is returned as it is.
with_resource(auth, resource) == auth

\* Ok(UploaderClientConfig { .. }) for cfg and the chosen uploader auth method.
UploaderClientConfig(cfg, uploader_auth) ==
    [ok |-> TRUE, err |-> [kind |-> "", what |-> ""],
     config |-> Some(
        [endpoint |-> cfg.endpoint,
         environment |-> cfg.environment,
         account |-> cfg.account,
         namespace |-> cfg.namespace,
         region |-> cfg.region,
         config_major_version |-> cfg.config_major_version,
         auth_method |-> uploader_auth,
         tenant |-> cfg.tenant,
         role_name |-> cfg.role_name,
         role_instance |-> cfg.role_instance,
         msi_resource |-> cfg.identity_resource])]

\* An uploader auth method: its kind and the value it carries (None: none).
UploaderAuth(kind, arg, password) == [kind |-> kind, arg |-> arg, password |-> password]

\* Variant: certificate authentication also asks for identity_resource.
to_uploader_config_resource_always(cfg) ==
    IF IsSome(FirstMissing(cfg)) THEN MissingField(Unwrap(FirstMissing(cfg)))
    ELSE IF cfg.config_major_version = 0
    THEN InvalidConfig("config_major_version must be > 0")
    ELSE IF cfg.auth_method = "Certificate" THEN
        IF ~IsSome(cfg.cert_path) THEN MissingField("cert_path")
        ELSE IF ~IsSome(cfg.identity_resource) THEN MissingField("identity_resource")
        ELSE UploaderClientConfig(cfg,
                 UploaderAuth("Certificate", cfg.cert_path,
                              IF IsSome(cfg.cert_password) THEN Unwrap(cfg.cert_password)
                              ELSE ""))
    ELSE IF cfg.auth_method = "ManagedIdentity" THEN
        IF ~IsSome(cfg.identity_resource)
        THEN MissingField("identity_resource (Managed Identity)")
        ELSE UploaderClientConfig(cfg,
                 with_resource(
                     IF IsSome(cfg.managed_identity_client_id)
                     THEN UploaderAuth("UserManagedIdentity",
                                       cfg.managed_identity_client_id, "")
                     ELSE UploaderAuth("SystemManagedIdentity", None, ""),
                     Unwrap(cfg.identity_resource)))
    ELSE
        IF ~IsSome(cfg.identity_resource)
        THEN MissingField("identity_resource (Workload Identity)")
        ELSE UploaderClientConfig(cfg,
                 UploaderAuth("WorkloadIdentity", cfg.identity_resource, ""))

\* GenevaExporterConfig::to_uploader_config
to_uploader_config(cfg) ==
    IF IsSome(FirstMissing(cfg)) THEN MissingField(Unwrap(FirstMissing(cfg)))
    ELSE IF cfg.config_major_version = 0
    THEN InvalidConfig("config_major_version must be > 0")
    ELSE IF cfg.auth_method = "Certificate" THEN
        IF ~IsSome(cfg.cert_path) THEN MissingField("cert_path")
        ELSE UploaderClientConfig(cfg,
                 UploaderAuth("Certificate", cfg.cert_path,
                              IF IsSome(cfg.cert_password) THEN Unwrap(cfg.cert_password)
                              ELSE ""))
    ELSE IF cfg.auth_method = "ManagedIdentity" THEN
        IF ~IsSome(cfg.identity_resource)
        THEN MissingField("identity_resource (Managed Identity)")
        ELSE UploaderClientConfig(cfg,
                 with_resource(
                     IF IsSome(cfg.managed_identity_client_id)
                     THEN UploaderAuth("UserManagedIdentity",
                                       cfg.managed_identity_client_id, "")
                     ELSE UploaderAuth("SystemManagedIdentity", None, ""),
                     Unwrap(cfg.identity_resource)))
    ELSE
        IF ~IsSome(cfg.identity_resource)
        THEN MissingField("identity_resource (Workload Identity)")
        ELSE UploaderClientConfig(cfg,
                 UploaderAuth("WorkloadIdentity", cfg.identity_resource, ""))

AuthMethods == {"ManagedIdentity", "Certificate", "WorkloadIdentity"}

\* The configurations to_uploader_config is checked on: every required field
\* empty or set (to a value of its own), every optional field unset or set.
Configs ==
    [endpoint : {"", "https://ingestion.monitor.azure.com/"},
     environment : {"", "prod"},
     account : {"", "account"},
     namespace : {"", "namespace"},
     region : {"", "eastus"},
     config_major_version : 0..MaxConfigVersion,
     tenant : {"", "tenant"},
     role_name : {"", "role"},
     role_instance : {"", "instance"},
     auth_method : AuthMethods,
     cert_path : {None, Some("/tmp/test-cert.p12")},
     cert_password : {None, Some("password")},
     identity_resource : {None, Some("https://monitor.azure.com/")},
     managed_identity_client_id : {None, Some("client-id")}]

InitConfig ==
    /\ Idle
    /\ conv_in = None /\ conv_out = None
    /\ cfg_in \in Configs
    /\ cfg_out = None

\* to_uploader_config is called on cfg_in.
ToUploaderConfig ==
    /\ cfg_out = None
    /\ cfg_out' = Some(to_uploader_config(cfg_in))
    /\ UNCHANGED <<cfg_in, conv_in, conv_out>>
    /\ UNCHANGED loop_vars

NextConfig == ToUploaderConfig

SpecConfig == InitConfig /\ [][NextConfig]_vars

\* ------------------------------------------------------------------ claims
Acked(id) == \E i \in 1..Len(cur_notified) :
                cur_notified[i].kind = "ack" /\ cur_notified[i].id = id
Nacked(id) == \E i \in 1..Len(cur_notified) :
                cur_notified[i].kind = "nack" /\ cur_notified[i].id = id
Outcomes(id) == Cardinality({i \in 1..Len(cur_notified) : cur_notified[i].id = id})
\* start() has finished handling cur and waits for the next message.
Handled == pc = "recv" /\ cur.type = "PData"
UploadFailed == \E i \in 1..Len(upload_log) : ~upload_log[i].ok
FirstFailed == CHOOSE i \in 1..Len(upload_log) :
                   ~upload_log[i].ok /\ \A j \in 1..(i - 1) : upload_log[j].ok

\* C1: once a data message of any signal kind has been handled, exactly one
\* acknowledgement or negative acknowledgement has been emitted for it.
C1_ExactlyOneOutcome ==
    Handled => Outcomes(cur.id) = 1

\* C2: a handled logs signal is acknowledged only if decoding, encoding and
\* every upload succeeded; after a failure it is negatively acknowledged (not
\* acknowledged), the failure counter is positive and the exporter is Running.
C2_AckOnlyIfAllSucceeded ==
    (Handled /\ cur.signal_type = "Logs") =>
        LET failure == cur.decode = "err" \/ cur.encode = "err" \/ UploadFailed
        IN  /\ Acked(cur.id) => ~failure
            /\ failure => /\ Nacked(cur.id)
                          /\ pdata_metrics.logs_failed >= 1

\* C3: every record decoded from an acknowledged logs signal has been passed
\* to the upload collaborator.
C3_AckedRecordsUploaded ==
    \A r \in accepted : r[1] \in acked => r \in uploaded

\* C4: after a flush, every batch the encoder returned has been attempted once,
\* in encoder order, whatever failed; and if a batch failed the signal is
\* negatively acknowledged citing the first failed batch's index.
C4_PartialFailureNacked ==
    (Handled /\ cur.n_batches > 0) =>
        /\ Len(upload_log) = cur.n_batches
        /\ \A i \in 1..Len(upload_log) : upload_log[i].idx = i
        /\ UploadFailed =>
              \E i \in 1..Len(cur_notified) :
                 /\ cur_notified[i].kind = "nack"
                 /\ cur_notified[i].id = cur.id
                 /\ cur_notified[i].batch = FirstFailed

\* C5: a handled data message of an unsupported signal kind has been
\* negatively acknowledged and counted as a failure.
C5_UnsupportedNacked ==
    (Handled /\ cur.signal_type # "Logs") =>
        /\ Nacked(cur.id)
        /\ pdata_metrics.logs_failed >= 1

\* C6: when the exporter has stopped on a shutdown, every record that was
\* still buffered has been passed to the upload collaborator, and the terminal
\* state carries the counters and the deadline of the shutdown message.
C6_ShutdownCompletesAcceptedWork ==
    pc = "stopped" =>
        /\ \A i \in 1..Len(buffer_src) : buffer_src[i] \in uploaded
        /\ IsSome(terminal)
        /\ Unwrap(terminal).deadline = cur.deadline
        /\ Unwrap(terminal).metrics = pdata_metrics

\* C7: a shutdown request that was in the channel while a signal's batches were
\* being uploaded stops the exporter only after the for loop has ended: no
\* batch is left, the signal has its acknowledgement and all its records were
\* handed to the upload collaborator.
C7_ShutdownAfterOutcome ==
    pc = "stopped" =>
        /\ batches = <<>> /\ batch_idx = 0
        /\ shutdown_during # 0 =>
              /\ shutdown_during \in acked
              /\ \A r \in accepted : r[1] = shutdown_during => r \in uploaded
C7_Witness ==
    pc = "stopped" /\ shutdown_during # 0 /\ \E r \in accepted : r[1] = shutdown_during

\* C8: under the default policy a batch whose upload fails on attempts 1, 2
\* and 3 and succeeds on attempt 4 ends in success after four attempts, with
\* waits of 100 ms, 200 ms and 400 ms between them.
C8_RetryUntilSuccess ==
    (IsSome(last_upload) /\ batch_retry = DefaultBatchRetryConfig
        /\ Unwrap(last_upload).fails = 3) =>
        /\ Unwrap(last_upload).ok
        /\ Unwrap(last_upload).attempts = 4
        /\ Unwrap(last_upload).waits = <<100, 200, 400>>

\* C9: under an enabled policy a batch gets at most max(1, max_retries) upload
\* attempts; if the attempt numbered max(1, max_retries) fails the batch has
\* failed with that attempt's error and no further attempt; a successful
\* attempt is the batch's last.
C9_AttemptsBounded ==
    (IsSome(last_upload) /\ batch_retry.enabled) =>
        LET u == Unwrap(last_upload)
            max_attempts == Max(1, batch_retry.max_retries)
        IN  /\ u.attempts <= max_attempts
            /\ (u.attempts >= max_attempts /\ u.fails >= max_attempts) =>
                   (~u.ok /\ u.err = max_attempts /\ u.attempts = max_attempts)
            /\ u.attempts > u.fails => (u.ok /\ u.attempts = u.fails + 1)
C9_Witness ==
    /\ IsSome(last_upload) /\ batch_retry.enabled
    /\ Unwrap(last_upload).fails >= Max(1, batch_retry.max_retries)
    /\ Unwrap(last_upload).attempts = Max(1, batch_retry.max_retries)
    /\ ~Unwrap(last_upload).ok

\* C10: with enabled = false (whatever max_retries) or max_retries = 0, each
\* batch gets exactly one upload attempt, no backoff wait, and the attempt's
\* result is the batch's outcome.
C10_SingleAttemptWhenDisabled ==
    (~batch_retry.enabled \/ batch_retry.max_retries = 0) =>
        /\ \A i, j \in 1..Len(upload_log) :
              upload_log[i].idx = upload_log[j].idx => i = j
        /\ IsSome(last_upload) =>
              LET u == Unwrap(last_upload)
              IN  /\ u.attempts = 1
                  /\ u.waits = <<>>
                  /\ u.ok = (u.fails = 0)
                  /\ ~u.ok => u.err = 1
C10_Witness ==
    /\ ~batch_retry.enabled /\ batch_retry.max_retries > 1
    /\ IsSome(last_upload)
    /\ Unwrap(last_upload).fails >= 1
    /\ ~Unwrap(last_upload).ok

\* C11: no batch whose encoded payload has length zero is passed to the
\* upload collaborator.
C11_EmptyBatchNeverUploaded ==
    IsSome(last_upload) => Unwrap(last_upload).data_len > 0

\* C12: a step in which a decoding, encoding or upload failure happens leaves
\* the exporter running (it goes on to clear the buffer, to the next batch or
\* to the next message); the loop of start() ends with an error or unwinds
\* only from recv() on a failed message channel or from a failed delivery of
\* the acknowledgement.
C12_OnlyChannelFailuresTerminate ==
    [][/\ pdata_metrics'.logs_failed > pdata_metrics.logs_failed =>
              pc' \in {"recv", "upload", "clear"}
       /\ (cur'.decode \in {"err", "panic"} /\ cur.decode = "none") => pc' = "recv"
       /\ (pc' \in {"error", "panic"} /\ pc \notin {"error", "panic", "start"}) =>
              \/ pc = "recv" /\ msg_chan = <<>>
              \/ /\ pc = "ack"
                 /\ cur_notified' = <<>>
                 /\ acked' = acked]_vars

\* The part of C13 that start() itself decides: no step other than the call of
\* the reporter changes a counter except by adding one to it, and the step
\* that takes a CollectTelemetry request hands the current counters to the
\* reporter and leaves the buffer and the position of the loop as they were.
OwnStepsKeepCounters ==
    [][LET collect == /\ pc = "recv" /\ msg_chan # <<>>
                      /\ Head(msg_chan).type = "CollectTelemetry"
                      /\ msg_chan' = Tail(msg_chan)
       IN  /\ ~collect =>
                 /\ pdata_metrics'.logs_consumed >= pdata_metrics.logs_consumed
                 /\ pdata_metrics'.logs_exported >= pdata_metrics.logs_exported
                 /\ pdata_metrics'.logs_failed >= pdata_metrics.logs_failed
           /\ collect =>
                 /\ reported' = Some(pdata_metrics)
                 /\ log_buffer' = log_buffer
                 /\ pc' = "recv"]_vars

\* The conversion has been called, and what it was called on.
Converted == IsSome(conv_out)
ConvOut == Unwrap(conv_out)
HasLogs == IsSome(conv_in.batch.logs)
InLogs == Unwrap(conv_in.batch.logs)
LogAttrRows ==
    IF IsSome(conv_in.batch.log_attrs) THEN Unwrap(conv_in.batch.log_attrs).rows ELSE <<>>
ResAttrRows ==
    IF IsSome(conv_in.batch.resource_attrs)
    THEN Unwrap(conv_in.batch.resource_attrs).rows ELSE <<>>
\* An attribute table is absent, or has its parent_id, key and type columns.
AttrColsOk(o) ==
    IsSome(o) => /\ Unwrap(o).cols.parent_id = "ok"
                 /\ Unwrap(o).cols.key = "ok"
                 /\ Unwrap(o).cols.type = "ok"
\* The defect of the primary table touches column c in row i.
Hit(c, i) ==
    conv_in.defect.col = c /\ (conv_in.defect.row = 0 \/ conv_in.defect.row = i)
\* The resource id row i of the input carries.
ExpectedResourceId(i) ==
    IF Hit("resource", i) THEN None ELSE InLogs.resource.id.cells[i]
\* The attribute a string (int) cell of row r of a table becomes.
StringAttr(table, r) == [key |-> "k", value |-> [tag |-> "String", v |-> AttrCell(table, r)]]
IntAttr(table, r) == [key |-> "k", value |-> [tag |-> "Int", v |-> AttrCell(table, r)]]
\* Row r has a key and a value of a type the claims name.
StringRow(r) == r.type = 1 /\ IsSome(r.key) /\ IsSome(r.str)
IntRow(r) == r.type = 2 /\ IsSome(r.key) /\ IsSome(r.int)
\* The record expected from row i of a well-formed table with the input's defect.
ExpectedRecord(i) ==
    [time_unix_nano |-> IF Hit("time_unix_nano", i) THEN None ELSE Some(TimeOf(i)),
     observed_time_unix_nano |->
         IF Hit("observed_time_unix_nano", i) THEN None ELSE Some(ObservedTimeOf(i)),
     severity_number |->
         IF Hit("severity_number", i) THEN None ELSE Some(SeverityNumberOf(i)),
     severity_text |-> IF Hit("severity_text", i) THEN None ELSE Some(SeverityTextOf(i)),
     body |-> IF Hit("body", i) THEN None ELSE Some(BodyOf(i)),
     attributes |-> IF i = 1 /\ ~Hit("resource", i) THEN <<StringAttr("res", 1)>> ELSE <<>>,
     trace_id |-> IF Hit("trace_id", i) THEN <<>> ELSE TraceIdOf(i),
     span_id |-> IF Hit("span_id", i) THEN <<>> ELSE SpanIdOf(i),
     flags |-> IF Hit("flags", i) THEN None ELSE Some(FlagsOf(i)),
     event_name |-> None]

\* C14: from a well-formed primary table of N rows the conversion returns N
\* records, record i holding the values of row i, whether or not attribute
\* tables come with it.
C14_OneRecordPerRow ==
    (Converted /\ HasLogs /\ conv_in.defect = NoDefect) =>
        /\ ConvOut.ok
        /\ Len(ConvOut.records) = InLogs.num_rows
        /\ \A i \in 1..Len(ConvOut.records) :
              [ConvOut.records[i] EXCEPT !.attributes = <<>>]
                  = [ExpectedRecord(i) EXCEPT !.attributes = <<>>]

\* C15: the conversion fails exactly when the input has no primary logs
\* table; with a well-formed primary table it succeeds whatever the
\* attribute tables are.
C15_FailsOnlyWithoutLogs ==
    (Converted /\ conv_in.defect = NoDefect) => (ConvOut.ok <=> HasLogs)

\* C16: every attribute of record i was read from a log-attribute row whose
\* parent_id is i - 1 or from a resource-attribute row whose parent_id is the
\* resource id of row i (so rows with a null or unresolvable parent id add
\* nothing), and no parent id makes the conversion fail.
C16_UnresolvableParentSkipped ==
    Converted =>
        /\ ConvOut.ok =>
              \A i \in 1..Len(ConvOut.records) :
                 \A p \in 1..Len(ConvOut.records[i].attributes) :
                    LET o == ConvOut.records[i].attributes[p].value.v
                    IN  IF o.table = "log"
                        THEN /\ o.row \in 1..Len(LogAttrRows)
                             /\ LogAttrRows[o.row].parent_id = Some(i - 1)
                        ELSE /\ o.row \in 1..Len(ResAttrRows)
                             /\ IsSome(ExpectedResourceId(i))
                             /\ ResAttrRows[o.row].parent_id = ExpectedResourceId(i)
        /\ (/\ HasLogs /\ conv_in.defect = NoDefect
            /\ AttrColsOk(conv_in.batch.log_attrs)
            /\ AttrColsOk(conv_in.batch.resource_attrs)) => ConvOut.ok
C16_Witness ==
    /\ Converted /\ ConvOut.ok
    /\ Len(LogAttrRows) = 2 /\ InLogs.num_rows >= 1
    /\ LogAttrRows[1].parent_id = Some(InLogs.num_rows)
    /\ LogAttrRows[2].parent_id = Some(0)
    /\ ConvOut.records[1].attributes = <<StringAttr("log", 2)>>

\* The place of an attribute in the scan: the log-attribute rows in table
\* order, then the resource-attribute rows in table order.
ScanRank(a) ==
    IF a.value.v.table = "log" THEN a.value.v.row ELSE Len(LogAttrRows) + a.value.v.row

\* C17: the attributes of every record are in scan order, those of the
\* log-attribute table before those of the resource-attribute table, and
\* every row is kept although all rows have the same key: each string or int
\* row of the log-attribute table and each string row of the
\* resource-attribute table that resolves to the record is among them.
C17_LogAttrsBeforeResourceAttrs ==
    (Converted /\ ConvOut.ok) =>
        \A i \in 1..Len(ConvOut.records) :
           LET attrs == ConvOut.records[i].attributes IN
           /\ \A p, q \in 1..Len(attrs) : p < q => ScanRank(attrs[p]) < ScanRank(attrs[q])
           /\ AttrColsOk(conv_in.batch.log_attrs) =>
                 \A r \in 1..Len(LogAttrRows) :
                    (/\ LogAttrRows[r].parent_id = Some(i - 1)
                     /\ Unwrap(conv_in.batch.log_attrs).cols = OkCols
                     /\ (StringRow(LogAttrRows[r]) \/ IntRow(LogAttrRows[r]))) =>
                        \E p \in 1..Len(attrs) : attrs[p].value.v = AttrCell("log", r)
           /\ AttrColsOk(conv_in.batch.resource_attrs) =>
                 \A r \in 1..Len(ResAttrRows) :
                    (/\ IsSome(ExpectedResourceId(i))
                     /\ ResAttrRows[r].parent_id = ExpectedResourceId(i)
                     /\ Unwrap(conv_in.batch.resource_attrs).cols = OkCols
                     /\ StringRow(ResAttrRows[r])) =>
                        \E p \in 1..Len(attrs) : attrs[p].value.v = AttrCell("res", r)
C17_Witness ==
    /\ Converted /\ ConvOut.ok
    /\ \E i \in 1..Len(ConvOut.records) :
          ConvOut.records[i].attributes =
              <<StringAttr("log", 1), IntAttr("log", 2),
                StringAttr("res", 1), StringAttr("res", 2)>>

\* C18: a resource-attribute row with type tag 2, a key and an int value,
\* whose parent id is the resource id of record i, gives record i an Int
\* attribute, as such a log-attribute row does.
C18_ResourceIntAttached ==
    (Converted /\ ConvOut.ok /\ IsSome(conv_in.batch.resource_attrs)
        /\ Unwrap(conv_in.batch.resource_attrs).cols = OkCols) =>
        \A i \in 1..Len(ConvOut.records) :
           \A r \in 1..Len(ResAttrRows) :
              (/\ IsSome(ExpectedResourceId(i))
               /\ ResAttrRows[r].parent_id = ExpectedResourceId(i)
               /\ IntRow(ResAttrRows[r])) =>
                  \E p \in 1..Len(ConvOut.records[i].attributes) :
                     ConvOut.records[i].attributes[p] = IntAttr("res", r)

\* C19: a primary table with one defect (a column missing or of another
\* layout, a null cell, a dictionary key that is null or outside the
\* dictionary) is converted, and its records are those of the well-formed
\* table except that the field read from the defective cells is absent.
C19_DefectDegradesOneField ==
    (Converted /\ conv_in.defect # NoDefect) =>
        /\ ConvOut.ok
        /\ Len(ConvOut.records) = InLogs.num_rows
        /\ \A i \in 1..Len(ConvOut.records) : ConvOut.records[i] = ExpectedRecord(i)

\* The result of to_uploader_config on cfg_in.
CfgOut == Unwrap(cfg_out)
\* Some required string field of cfg_in is empty.
RequiredEmpty ==
    \E f \in {"endpoint", "environment", "account", "namespace", "region", "tenant",
              "role_name", "role_instance"} : cfg_in[f] = ""
NeedsResource == cfg_in.auth_method \in {"ManagedIdentity", "WorkloadIdentity"}
\* cfg_in breaks one of the rules of the validation.
Invalid ==
    \/ RequiredEmpty
    \/ cfg_in.config_major_version = 0
    \/ cfg_in.auth_method = "Certificate" /\ cfg_in.cert_path = None
    \/ NeedsResource /\ cfg_in.identity_resource = None

\* C20: to_uploader_config returns an error for a configuration with an empty
\* required field (MissingField naming an empty field), with
\* config_major_version 0 (InvalidConfig), with certificate authentication
\* and no cert_path, or with managed or workload identity and no
\* identity_resource (MissingField); for every other configuration, among
\* them certificate authentication without identity_resource, it returns a
\* configuration whose fields are the input's, with SystemManagedIdentity
\* when managed identity has no client id.
C20_ConfigValidated ==
    IsSome(cfg_out) =>
        /\ CfgOut.ok <=> ~Invalid
        /\ RequiredEmpty =>
              /\ CfgOut.err.kind = "MissingField"
              /\ cfg_in[CfgOut.err.what] = ""
        /\ (~RequiredEmpty /\ cfg_in.config_major_version = 0) =>
              CfgOut.err.kind = "InvalidConfig"
        /\ (~RequiredEmpty /\ cfg_in.config_major_version # 0
               /\ cfg_in.auth_method = "Certificate" /\ cfg_in.cert_path = None) =>
              CfgOut.err = [kind |-> "MissingField", what |-> "cert_path"]
        /\ (~RequiredEmpty /\ cfg_in.config_major_version # 0
               /\ NeedsResource /\ cfg_in.identity_resource = None) =>
              /\ CfgOut.err.kind = "MissingField"
              /\ CfgOut.err.what \in {"identity_resource (Managed Identity)",
                                      "identity_resource (Workload Identity)"}
        /\ CfgOut.ok =>
              LET c == Unwrap(CfgOut.config) IN
              /\ \A f \in {"endpoint", "environment", "account", "namespace", "region",
                           "config_major_version", "tenant", "role_name",
                           "role_instance"} : c[f] = cfg_in[f]
              /\ c.msi_resource = cfg_in.identity_resource
              /\ (cfg_in.auth_method = "ManagedIdentity"
                     /\ cfg_in.managed_identity_client_id = None) =>
                    c.auth_method.kind = "SystemManagedIdentity"
              /\ cfg_in.auth_method = "Certificate" =>
                    /\ c.auth_method.kind = "Certificate"
                    /\ c.auth_method.arg = cfg_in.cert_path
              /\ cfg_in.auth_method = "WorkloadIdentity" =>
                    c.auth_method.kind = "WorkloadIdentity"
C20_Witness ==
    /\ IsSome(cfg_out) /\ CfgOut.ok
    /\ cfg_in.auth_method = "Certificate"
    /\ cfg_in.identity_resource = None

\* The attributes of a record that were read from the resource-attribute table.
IsResAttr(a) == a.value.v.table = "res"
ResPart(attrs) == SelectSeq(attrs, IsResAttr)
\* The rows of the resource-attribute table from which an attribute is built
\* for resource id rid (an option): string rows with a key whose parent is rid.
BuiltFor(rid) ==
    IF ~IsSome(rid) \/ ~IsSome(conv_in.batch.resource_attrs) THEN {}
    ELSE {k \in 1..Len(ResAttrRows) :
             /\ Unwrap(conv_in.batch.resource_attrs).cols.key = "ok"
             /\ Unwrap(conv_in.batch.resource_attrs).cols.str = "ok"
             /\ ResAttrRows[k].parent_id = rid
             /\ StringRow(ResAttrRows[k])}

\* C21: in every record the resource attributes follow the record's log
\* attributes and are exactly the attributes built from the rows of the
\* resource-attribute table whose parent id is the resource id of the
\* record's row, in table order; a record whose resource id is absent, null
\* or without such rows has no resource attribute.
C21_ResourceFanOut ==
    (Converted /\ ConvOut.ok) =>
        \A i \in 1..Len(ConvOut.records) :
           LET attrs == ConvOut.records[i].attributes
               res == ResPart(attrs)
               rows == BuiltFor(ExpectedResourceId(i))
           IN  /\ \A p, q \in 1..Len(attrs) :
                     (p < q /\ IsResAttr(attrs[p])) => IsResAttr(attrs[q])
               /\ Len(res) = Cardinality(rows)
               /\ \A p \in 1..Len(res) :
                     /\ res[p].value.v.row \in rows
                     /\ res[p] = StringAttr("res", res[p].value.v.row)
               /\ \A p, q \in 1..Len(res) :
                     p < q => res[p].value.v.row < res[q].value.v.row
C21_Witness ==
    /\ Converted /\ ConvOut.ok
    /\ Len(ConvOut.records) = 2
    /\ ExpectedResourceId(1) = Some(0) /\ ExpectedResourceId(2) = Some(0)
    /\ ConvOut.records[1].attributes =
           <<IntAttr("log", 1), StringAttr("res", 1), StringAttr("res", 2)>>
    /\ ConvOut.records[2].attributes = <<StringAttr("res", 1), StringAttr("res", 2)>>

\* C22: whenever start() waits in recv() the buffer holds fewer than
\* max_buffer_size records; a buffer of max_buffer_size records or more exists
\* only while the message whose records filled it is being flushed, and once
\* that message is handled the buffer is empty.
C22_BufferBelowThreshold ==
    /\ pc = "recv" => Len(log_buffer) < max_buffer_size
    /\ Len(log_buffer) >= max_buffer_size =>
          /\ pc \in {"encode", "upload", "uploading", "clear"}
          /\ cur.type = "PData"
          /\ buffer_src[Len(buffer_src)][1] = cur.id
    /\ (Handled /\ cur.encode # "none") => log_buffer = <<>>
C22_Witness ==
    /\ Handled /\ cur.id = 2 /\ cur.encode = "ok"
    /\ max_buffer_size = 2
    /\ upload_log # <<>>
    /\ log_buffer = <<>>
    /\ \E r \in uploaded : r[1] = 1

\* C23: once a message that caused a flush is handled the buffer is empty,
\* whether the encoder failed, a batch upload failed or all succeeded; no
\* record is handed to the encoder twice, and no record waiting in the buffer
\* has been handed to it before.
C23_FlushEmptiesBuffer ==
    /\ (Handled /\ (cur.encode = "err" \/ UploadFailed
                       \/ (cur.encode = "ok" /\ ~UploadFailed))) =>
          /\ log_buffer = <<>>
          /\ buffer_src = <<>>
    /\ \A i, j \in 1..Len(encoded) : encoded[i] = encoded[j] => i = j
    /\ pc = "recv" =>
          \A k \in 1..Len(buffer_src) :
             \A i \in 1..Len(encoded) : encoded[i] # buffer_src[k]
C23_Witness ==
    /\ Handled /\ cur.id = 2 /\ cur.encode = "ok" /\ ~UploadFailed
    /\ pdata_metrics.logs_failed >= 1
    /\ Len(encoded) = 2
    /\ encoded[1][1] = 1 /\ encoded[2][1] = 2

\* C24: the step that appends the records of a logs signal and leaves the
\* buffer below max_buffer_size goes back to recv(); the encoder is called
\* for upload and the upload collaborator is called only while the buffer
\* holds max_buffer_size records or more, during the handling of the signal
\* that reached the threshold.
C24_NoUploadBelowThreshold ==
    [][/\ (pc = "append" /\ pc' # "append" /\ Len(log_buffer') < max_buffer_size) =>
              /\ pc' = "recv"
              /\ cur'.encode = "none"
              /\ encoded' = encoded
              /\ uploaded' = uploaded
              /\ upload_log' = <<>>
       /\ (encoded' # encoded /\ pc # "shutdown_flush") =>
              /\ pc = "encode"
              /\ Len(log_buffer) >= max_buffer_size
       /\ (uploaded' # uploaded \/ upload_log' \notin {upload_log, <<>>}) =>
              /\ Uploading
              /\ cur.encode = "ok"
              /\ Len(log_buffer) >= max_buffer_size
              /\ \A r \in uploaded' \ uploaded : r[1] <= cur.id]_vars
C24_Witness ==
    /\ Handled /\ cur.id = 2 /\ cur.encode = "ok"
    /\ max_buffer_size = 2
    /\ Len(upload_log) = 1
    /\ uploaded = {<<1, 1>>, <<2, 1>>}

====
